---- MODULE Spec2Model ----
(***************************************************************************)
(* Anonymous bounded voting (ABV): the verifier side of the solution.      *)
(*                                                                         *)
(* A point of the Ristretto group is modelled as the multiple             *)
(* (hi * 2^64 + lo) * G1 of the base point G1, written [hi, lo] with hi    *)
(* and lo small integers.  The order of the group exceeds 2^252, so two    *)
(* such multiples are the same point exactly when they have the same hi    *)
(* and the same lo: the arithmetic below never wraps around.  A byte       *)
(* string is a sequence of integers; the encoding of a point is the        *)
(* sequence << hi, lo >>, and a string of any other length (the empty      *)
(* string of a default protobuf message among them) encodes no point.      *)
(***************************************************************************)
EXTENDS Integers, Sequences, FiniteSets, TLC

VARIABLES pc, args, ret, vote_sum, n_agg

vars == <<pc, args, ret, vote_sum, n_agg>>

(***************************************************************************)
(* Bounds of the model.                                                    *)
(***************************************************************************)
NumPoints == 3
NumCandidates == 2
MaxFaults == 3
MaxBallotFaults == 2
MaxAggregations == 2
MaxLen == 5

(***************************************************************************)
(* Group arithmetic and point encoding.                                    *)
(***************************************************************************)
Pt(k) == [hi |-> 0, lo |-> k]

\* the points that the inputs of the model are built from
Points == {Pt(k) : k \in 0 .. (NumPoints - 1)}

\* RistrettoPoint::default(), the identity of the group
Identity == Pt(0)

BASEPOINT_G1 == Pt(1)

PointAdd(p, q) == [hi |-> p.hi + q.hi, lo |-> p.lo + q.lo]

PointSub(p, q) == [hi |-> p.hi - q.hi, lo |-> p.lo - q.lo]

\* the multiple of the point p by the scalar s = s.hi * 2^64 + s.lo, for a
\* point and a scalar that are not both beyond 2^64
ScalarMul(p, s) == [hi |-> p.hi * s.lo + p.lo * s.hi, lo |-> p.lo * s.lo]

\* Scalar::from(x as u64) for an i64 x: a negative x is cast to 2^64 + x
ScalarFromU64Cast(x) == IF x >= 0 THEN [hi |-> 0, lo |-> x] ELSE [hi |-> 1, lo |-> x]

EmptyBytes == << >>

PointSize == 2

\* a byte string that is not of the length of an encoded point
MalformedBytes == << 0 >>

point_to_bytes(p) == << p.hi, p.lo >>

\* Result<RistrettoPoint, WedprError>
bytes_to_point(b) ==
    IF Len(b) = PointSize
    THEN [ok |-> TRUE, point |-> [hi |-> b[1], lo |-> b[2]]]
    ELSE [ok |-> FALSE, point |-> Identity]

\* proof bytes are "valid" (a proof that verifies), "forged" (a well-formed
\* proof that does not verify), "empty" (the bytes of a default message,
\* which parse to a proof that does not verify), "err" (a message whose
\* fields the verifier cannot decode) or "garbled" (no protobuf message)
bytes_to_proto(b) == [ok |-> b # "garbled", proof |-> b]

(***************************************************************************)
(* pending_commitment_vec                                                  *)
(***************************************************************************)
RECURSIVE Pow2(_)
Pow2(k) == IF k = 0 THEN 1 ELSE 2 * Pow2(k - 1)

RECURSIVE CeilLog2From(_, _)
CeilLog2From(n, k) == IF Pow2(k) >= n THEN k ELSE CeilLog2From(n, k + 1)

RECURSIVE FloorLog2From(_, _)
FloorLog2From(n, k) == IF Pow2(k + 1) > n THEN k ELSE FloorLog2From(n, k + 1)

\* the logarithm rounded down instead of up
log_length_floor(length) == IF length = 0 THEN 0 ELSE FloorLog2From(length, 0)

\* (length as f64).log2().ceil() as u32: log2(0) is -inf, which the cast
\* saturates to 0
log_length(length) == IF length = 0 THEN 0 ELSE CeilLog2From(length, 0)

RECURSIVE PushN(_, _, _)
PushN(v, tmp, n) == IF n = 0 THEN v ELSE PushN(Append(v, tmp), tmp, n - 1)

pending_commitment_vec(v) ==
    LET length == Len(v)
        expected_len == Pow2(log_length(length))
        pending_length == expected_len - length
    IN  IF expected_len = length
        THEN v
        ELSE IF pending_length > 0 THEN PushN(v, Identity, pending_length) ELSE v

(***************************************************************************)
(* Messages.                                                               *)
(***************************************************************************)
\* Ballot::new(): both ciphertexts are the empty byte string
BallotNew == [ciphertext1 |-> EmptyBytes, ciphertext2 |-> EmptyBytes]

\* CountingPart::new()
CountingPartNew == [c2_r |-> EmptyBytes, equality_proof |-> "empty"]

Ballot(c1, c2) == [ciphertext1 |-> c1, ciphertext2 |-> c2]

CandidateBallot(candidate, ballot) == [candidate |-> candidate, ballot |-> ballot]

CandidateNames == << "A", "B", "C", "D" >>

\* a candidate identifier that the system parameters do not configure
Outsider == "X"

\* param.get_candidates().get_candidate()
Candidates == SubSeq(CandidateNames, 1, NumCandidates)

OkTrue == "Ok(true)"
OkFalse == "Ok(false)"
VerificationError == "Err(VerificationError)"
FormatError == "Err(FormatError)"
DecodeError == "Err(DecodeError)"

Ret(result, trace) == [result |-> result, trace |-> trace]

\* one invocation of an external verifier: which check, what it returned
\* (ok when that is Ok(true)), and the public inputs it was given
Event(check, result, on) ==
    [check |-> check, ok |-> result = OkTrue, result |-> result, on |-> on]

\* the Result of a verifier that returns a plain bool
BoolResult(b) == IF b THEN OkTrue ELSE OkFalse

(***************************************************************************)
(* External verifiers.                                                     *)
(***************************************************************************)
HASH_KECCAK256(bytes) == [keccak256 |-> bytes]

SIGNATURE_SECP256K1_verify(public_key, message_hash, signature) ==
    signature.signer = public_key /\ signature.message = message_hash

IsPowerOfTwo(n) == \E k \in 0 .. n : Pow2(k) = n

verify_value_range_in_batch(commitments, proof, poll_point) ==
    IsPowerOfTwo(Len(commitments)) /\ proof = "valid"

\* Result<bool, WedprError> of a verifier given the proof
ProofResult(proof) ==
    CASE proof = "valid" -> OkTrue
      [] proof = "err" -> FormatError
      [] OTHER -> OkFalse

verify_format_proof(c1, c2, proof, poll_point) == ProofResult(proof)

verify_sum_relationship(c1_sum, rest, blank, proof, poll_point) == ProofResult(proof)

verify_equality_relationship_proof(share, c2_r, proof, c2_sum) == ProofResult(proof)

(***************************************************************************)
(* verify_bounded_vote_request                                             *)
(***************************************************************************)
\* the scan for the ballot of a candidate: the last match wins, and no
\* match leaves Ballot::new()
RECURSIVE find_ballot(_, _, _, _)
find_ballot(pairs, candidate, i, found) ==
    IF i > Len(pairs)
    THEN found
    ELSE find_ballot(pairs, candidate, i + 1,
                     IF pairs[i].candidate = candidate
                     THEN pairs[i].ballot
                     ELSE found)

\* lines 52-56: the commitments and their sum, or the first decode failure
RECURSIVE collect_commitments(_, _, _, _)
collect_commitments(voted_ballot, i, commitments, voted_ballot_sum) ==
    IF i > Len(voted_ballot)
    THEN [ok |-> TRUE, commitments |-> commitments,
          voted_ballot_sum |-> voted_ballot_sum]
    ELSE LET c1 == bytes_to_point(voted_ballot[i].ballot.ciphertext1)
         IN  IF ~c1.ok
             THEN [ok |-> FALSE, commitments |-> commitments,
                   voted_ballot_sum |-> voted_ballot_sum]
             ELSE collect_commitments(voted_ballot, i + 1,
                                      Append(commitments, c1.point),
                                      PointAdd(voted_ballot_sum, c1.point))

\* the format loop going on to the next pair after a proof that fails
RECURSIVE verify_format_proofs_no_return(_, _, _, _)
verify_format_proofs_no_return(request, poll_point, i, trace) ==
    IF i > Len(request.ballot_proof)
    THEN [done |-> FALSE, result |-> OkTrue, trace |-> trace]
    ELSE LET candidate == request.ballot_proof[i].candidate
             ballot_proof == request.ballot_proof[i].value
             candidate_ballot ==
                 find_ballot(request.vote.voted_ballot, candidate, 1, BallotNew)
             ciphertext1 == bytes_to_point(candidate_ballot.ciphertext1)
             ciphertext2 == bytes_to_point(candidate_ballot.ciphertext2)
             format_proof == bytes_to_proto(ballot_proof.format_proof)
             verified == verify_format_proof(ciphertext1.point, ciphertext2.point,
                                             format_proof.proof, poll_point)
             event == Event("format", verified,
                            << candidate, ciphertext1.point, ciphertext2.point >>)
         IN  IF ~ciphertext1.ok \/ ~ciphertext2.ok
             THEN [done |-> TRUE, result |-> FormatError, trace |-> trace]
             ELSE IF ~format_proof.ok
             THEN [done |-> TRUE, result |-> DecodeError, trace |-> trace]
             ELSE IF verified \notin {OkTrue, OkFalse}
             THEN [done |-> TRUE, result |-> verified,
                   trace |-> Append(trace, event)]
             ELSE verify_format_proofs_no_return(request, poll_point, i + 1,
                                                 Append(trace, event))

\* lines 67-92: one format proof per supplied (candidate, proof) pair
RECURSIVE verify_format_proofs(_, _, _, _)
verify_format_proofs(request, poll_point, i, trace) ==
    IF i > Len(request.ballot_proof)
    THEN [done |-> FALSE, result |-> OkTrue, trace |-> trace]
    ELSE LET candidate == request.ballot_proof[i].candidate
             ballot_proof == request.ballot_proof[i].value
             candidate_ballot ==
                 find_ballot(request.vote.voted_ballot, candidate, 1, BallotNew)
             ciphertext1 == bytes_to_point(candidate_ballot.ciphertext1)
             ciphertext2 == bytes_to_point(candidate_ballot.ciphertext2)
             format_proof == bytes_to_proto(ballot_proof.format_proof)
             verified == verify_format_proof(ciphertext1.point, ciphertext2.point,
                                             format_proof.proof, poll_point)
             event == Event("format", verified,
                            << candidate, ciphertext1.point, ciphertext2.point >>)
         IN  IF ~ciphertext1.ok \/ ~ciphertext2.ok
             THEN [done |-> TRUE, result |-> FormatError, trace |-> trace]
             ELSE IF ~format_proof.ok
             THEN [done |-> TRUE, result |-> DecodeError, trace |-> trace]
             ELSE IF verified \notin {OkTrue, OkFalse}
             THEN [done |-> TRUE, result |-> verified,
                   trace |-> Append(trace, event)]
             ELSE IF verified = OkFalse
             THEN [done |-> TRUE, result |-> VerificationError,
                   trace |-> Append(trace, event)]
             ELSE verify_format_proofs(request, poll_point, i + 1,
                                       Append(trace, event))

verify_bounded_vote_request(param, request, public_key) ==
    LET poll_point == bytes_to_point(param.poll_point)
        signature == request.vote.signature
        blank_ballot == request.vote.blank_ballot
        hash_vec == blank_ballot.ciphertext1 \o blank_ballot.ciphertext2
        message_hash == HASH_KECCAK256(hash_vec)
        signed == SIGNATURE_SECP256K1_verify(public_key, message_hash, signature)
        t1 == << Event("signature", BoolResult(signed), message_hash) >>
        collected == collect_commitments(request.vote.voted_ballot, 1, << >>, Identity)
        rest_ballot == request.vote.rest_ballot.ciphertext1
        rest_ballot_point == bytes_to_point(rest_ballot)
        commitments ==
            pending_commitment_vec(Append(collected.commitments, rest_ballot_point.point))
        in_range ==
            verify_value_range_in_batch(commitments, request.range_proof, poll_point.point)
        t2 == Append(t1, Event("range", BoolResult(in_range), commitments))
        formats == verify_format_proofs(request, poll_point.point, 1, t2)
        balance_proof == bytes_to_proto(request.sum_balance_proof)
        blank_c1 == bytes_to_point(blank_ballot.ciphertext1)
        balanced ==
            verify_sum_relationship(collected.voted_ballot_sum, rest_ballot_point.point,
                                    blank_c1.point, balance_proof.proof, poll_point.point)
        t4 == Append(formats.trace,
                     Event("balance", balanced,
                           << collected.voted_ballot_sum, rest_ballot_point.point,
                              blank_c1.point >>))
    IN  IF ~poll_point.ok THEN Ret(FormatError, << >>)
        ELSE IF ~signed THEN Ret(VerificationError, t1)
        ELSE IF ~collected.ok THEN Ret(FormatError, t1)
        ELSE IF ~rest_ballot_point.ok THEN Ret(FormatError, t1)
        ELSE IF ~in_range THEN Ret(VerificationError, t2)
        ELSE IF formats.done THEN Ret(formats.result, formats.trace)
        ELSE IF ~balance_proof.ok THEN Ret(DecodeError, formats.trace)
        ELSE IF ~blank_c1.ok THEN Ret(FormatError, formats.trace)
        ELSE IF balanced \notin {OkTrue, OkFalse} THEN Ret(balanced, t4)
        ELSE IF balanced = OkFalse THEN Ret(VerificationError, t4)
        ELSE Ret(OkTrue, t4)

(***************************************************************************)
(* The requests a voter can submit: an honest request, and every request   *)
(* that departs from it in at most MaxFaults places.                       *)
(***************************************************************************)
Voter == "voter"

HonestBallot(i) ==
    Ballot(point_to_bytes(Pt(i % NumPoints)), point_to_bytes(Pt((i + 1) % NumPoints)))

OtherBallot(i) ==
    Ballot(point_to_bytes(Pt((i + 1) % NumPoints)), point_to_bytes(Pt(i % NumPoints)))

HonestBlank ==
    Ballot(point_to_bytes(Pt(1 % NumPoints)), point_to_bytes(Pt(2 % NumPoints)))

Sign(signer, blank) ==
    [signer |-> signer,
     message |-> HASH_KECCAK256(blank.ciphertext1 \o blank.ciphertext2)]

BallotOpts == {"honest", "omit", "bad_c1", "bad_c2", "dup"}

PairOpts == {"honest", "omit", "forged", "garbled", "err"}

ProofOf(opt) == IF opt = "honest" THEN "valid" ELSE opt

BallotOf(opt, honest) ==
    CASE opt = "bad_c1" -> Ballot(MalformedBytes, honest.ciphertext2)
      [] opt = "bad_c2" -> Ballot(honest.ciphertext1, MalformedBytes)
      [] OTHER -> honest

\* the candidate ballot list chosen by vo, one choice per configured candidate
RECURSIVE BuildVoted(_, _)
BuildVoted(vo, i) ==
    IF i > NumCandidates
    THEN << >>
    ELSE LET entry == CandidateBallot(Candidates[i], BallotOf(vo[i], HonestBallot(i)))
             here == CASE vo[i] = "omit" -> << >>
                       [] vo[i] = "dup" ->
                            << CandidateBallot(Candidates[i], OtherBallot(i)), entry >>
                       [] OTHER -> << entry >>
         IN  here \o BuildVoted(vo, i + 1)

RECURSIVE BuildProofs(_, _)
BuildProofs(po, i) ==
    IF i > NumCandidates
    THEN << >>
    ELSE LET here == IF po[i] = "omit"
                     THEN << >>
                     ELSE << [candidate |-> Candidates[i],
                              value |-> [format_proof |-> ProofOf(po[i])]] >>
         IN  here \o BuildProofs(po, i + 1)

Faults(f) == Cardinality({i \in DOMAIN f : f[i] # "honest"})

VoteGlobals ==
    [poll : {"honest", "bad"}, blank : {"honest", "bad_c1", "bad_c2"},
     sig : {"honest", "other_key", "other_message"}, rest : {"honest", "bad"},
     range : {"honest", "forged"}, sum : {"honest", "forged", "garbled", "err"},
     outsider_vote : {"honest", "yes"}, outsider_proof : {"honest", "yes"}]

BuildParam(g) ==
    [candidates |-> Candidates,
     poll_point |->
         IF g.poll = "bad" THEN MalformedBytes ELSE point_to_bytes(Pt(1 % NumPoints))]

BuildRequest(g, vo, po) ==
    LET blank == BallotOf(g.blank, HonestBlank)
        signature ==
            CASE g.sig = "other_key" -> Sign("stranger", blank)
              [] g.sig = "other_message" ->
                   Sign(Voter, Ballot(blank.ciphertext2, blank.ciphertext1))
              [] OTHER -> Sign(Voter, blank)
    IN  [vote |->
            [signature |-> signature,
             blank_ballot |-> blank,
             rest_ballot |->
                 IF g.rest = "bad"
                 THEN Ballot(MalformedBytes, point_to_bytes(Identity))
                 ELSE Ballot(point_to_bytes(Identity), point_to_bytes(Identity)),
             voted_ballot |->
                 BuildVoted(vo, 1) \o
                 (IF g.outsider_vote = "yes"
                  THEN << CandidateBallot(Outsider, HonestBallot(0)) >>
                  ELSE << >>)],
         range_proof |-> ProofOf(g.range),
         ballot_proof |->
             BuildProofs(po, 1) \o
             (IF g.outsider_proof = "yes"
              THEN << [candidate |-> Outsider, value |-> [format_proof |-> "valid"]] >>
              ELSE << >>),
         sum_balance_proof |-> ProofOf(g.sum)]

Fresh == [has_blank_ballot |-> FALSE, blank_ballot |-> BallotNew, voted_ballot |-> << >>]

NoRet == [result |-> "none", trace |-> << >>]

InitVote ==
    /\ pc = "ready"
    /\ ret = NoRet
    /\ vote_sum = Fresh
    /\ n_agg = 0
    /\ \E g \in VoteGlobals :
          /\ Faults(g) <= MaxFaults
          /\ \E vo \in [1 .. NumCandidates -> BallotOpts] :
                /\ Faults(g) + Faults(vo) <= MaxFaults
                /\ \E po \in [1 .. NumCandidates -> PairOpts] :
                      /\ Faults(g) + Faults(vo) + Faults(po) <= MaxFaults
                      /\ args = [op |-> "verify_bounded_vote_request",
                                 param |-> BuildParam(g),
                                 request |-> BuildRequest(g, vo, po),
                                 public_key |-> Voter]

VerifyBoundedVoteRequest ==
    /\ pc = "ready"
    /\ args.op = "verify_bounded_vote_request"
    /\ ret' = verify_bounded_vote_request(args.param, args.request, args.public_key)
    /\ pc' = "done"
    /\ UNCHANGED <<args, vote_sum, n_agg>>

NextVote == VerifyBoundedVoteRequest

SpecVote == InitVote /\ [][NextVote]_vars

VoteDone == pc = "done" /\ args.op = "verify_bounded_vote_request"

\* the checks of a request in the order of the code: the signature, the
\* range proof, one format proof per supplied pair, the balance proof
ExpectedChecks(request) ==
    << "signature", "range" >> \o
    [i \in 1 .. Len(request.ballot_proof) |-> "format"] \o << "balance" >>

\* C1: verify_bounded_vote_request returns Ok(true) only when the signature
\* over the hash of the blank ballot's two ciphertexts, the range proof, the
\* format proof of every supplied pair and the balance proof all passed; the
\* checks run in that order, and the first one that fails (its verifier
\* reports that the proof or signature does not verify) ends the call with
\* VerificationError, no later check being run.  A verifier that itself
\* returns an error ends the call with that error, no later check being run.
C1_AllChecksInOrder ==
    VoteDone =>
        LET t == ret.trace
            e == ExpectedChecks(args.request)
            blank == args.request.vote.blank_ballot
        IN  /\ Len(t) <= Len(e)
            /\ \A i \in 1 .. Len(t) :
                  /\ t[i].check = e[i]
                  /\ t[i].check = "format" =>
                        t[i].on[1] = args.request.ballot_proof[i - 2].candidate
                  /\ t[i].check = "signature" =>
                        /\ t[i].on = HASH_KECCAK256(blank.ciphertext1 \o blank.ciphertext2)
                        /\ t[i].ok = SIGNATURE_SECP256K1_verify(
                                         args.public_key, t[i].on,
                                         args.request.vote.signature)
                  /\ t[i].result = OkFalse =>
                        i = Len(t) /\ ret.result = VerificationError
                  /\ t[i].result \notin {OkTrue, OkFalse} =>
                        i = Len(t) /\ ret.result = t[i].result
            /\ ret.result = OkTrue =>
                  Len(t) = Len(e) /\ \A i \in 1 .. Len(t) : t[i].ok

\* an accepted request with a format proof for every configured candidate
C1_Witness ==
    /\ VoteDone
    /\ ret.result = OkTrue
    /\ Len(args.request.ballot_proof) >= NumCandidates
    /\ Len(ret.trace) = NumCandidates + 3

VoteHasMalformedPoint ==
    LET vote == args.request.vote
    IN  \/ ~bytes_to_point(args.param.poll_point).ok
        \/ ~bytes_to_point(vote.blank_ballot.ciphertext1).ok
        \/ ~bytes_to_point(vote.blank_ballot.ciphertext2).ok
        \/ ~bytes_to_point(vote.rest_ballot.ciphertext1).ok
        \/ \E i \in 1 .. Len(vote.voted_ballot) :
              \/ ~bytes_to_point(vote.voted_ballot[i].ballot.ciphertext1).ok
              \/ ~bytes_to_point(vote.voted_ballot[i].ballot.ciphertext2).ok

\* C6: whenever a group-element encoding among the inputs of
\* verify_bounded_vote_request is malformed, the call returns a decode error
\* and no zero-knowledge proof verifier (range, format, balance) has been
\* invoked before that rejection.  Stated for the requests whose signature
\* verifies, the signature being no zero-knowledge proof.
C6_DecodeBeforeProofs ==
    (VoteDone /\ VoteHasMalformedPoint
       /\ SIGNATURE_SECP256K1_verify(
              args.public_key,
              HASH_KECCAK256(args.request.vote.blank_ballot.ciphertext1
                             \o args.request.vote.blank_ballot.ciphertext2),
              args.request.vote.signature))
    => /\ ret.result = FormatError
       /\ \A i \in 1 .. Len(ret.trace) : ret.trace[i].check = "signature"

\* C9: whenever verify_bounded_vote_request returns Ok(true), every
\* candidate ballot of the voted-ballot list has had a format proof verified
\* against its own (c1, c2).
C9_EveryVotedBallotFormatChecked ==
    (VoteDone /\ ret.result = OkTrue) =>
        \A i \in 1 .. Len(args.request.vote.voted_ballot) :
            LET pair == args.request.vote.voted_ballot[i]
                c1 == bytes_to_point(pair.ballot.ciphertext1)
                c2 == bytes_to_point(pair.ballot.ciphertext2)
            IN  /\ c1.ok
                /\ c2.ok
                /\ \E j \in 1 .. Len(ret.trace) :
                      /\ ret.trace[j].check = "format"
                      /\ ret.trace[j].ok
                      /\ ret.trace[j].on = << pair.candidate, c1.point, c2.point >>

(***************************************************************************)
(* Padding a vector of commitments.                                        *)
(***************************************************************************)
Vectors == UNION {[1 .. n -> Points] : n \in 0 .. MaxLen}

InitPad ==
    /\ pc = "ready"
    /\ ret = NoRet
    /\ vote_sum = Fresh
    /\ n_agg = 0
    /\ \E v \in Vectors : args = [op |-> "pending_commitment_vec", v |-> v]

PendingCommitmentVec ==
    /\ pc = "ready"
    /\ args.op = "pending_commitment_vec"
    /\ ret' = [result |-> "()", trace |-> << >>, v |-> pending_commitment_vec(args.v)]
    /\ pc' = "done"
    /\ UNCHANGED <<args, vote_sum, n_agg>>

NextPad == PendingCommitmentVec

SpecPad == InitPad /\ [][NextPad]_vars

PadDone == pc = "done" /\ args.op = "pending_commitment_vec"

\* C8: pending_commitment_vec pads a vector of length n to the smallest
\* power of two that is at least n, appending only the identity, keeps the
\* n elements as a prefix, leaves a vector of power-of-two length as it is,
\* and for n = 0 and n = 1 yields length 1.
C8_PadToPowerOfTwo ==
    PadDone =>
        LET n == Len(args.v)
            out == ret.v
        IN  /\ IsPowerOfTwo(Len(out))
            /\ Len(out) >= n
            /\ \A k \in 0 .. Len(out) : Pow2(k) >= n => Pow2(k) >= Len(out)
            /\ SubSeq(out, 1, n) = args.v
            /\ \A i \in (n + 1) .. Len(out) : out[i] = Identity
            /\ IsPowerOfTwo(n) => out = args.v
            /\ n <= 1 => Len(out) = 1

\* a vector of three commitments, none the identity, padded to four
C8_Witness ==
    /\ PadDone
    /\ Len(args.v) = 3
    /\ \A i \in 1 .. 3 : args.v[i] # Identity
    /\ Len(ret.v) = 4

(***************************************************************************)
(* aggregate_vote_sum_response                                             *)
(***************************************************************************)
IdentityBallot == Ballot(point_to_bytes(Identity), point_to_bytes(Identity))

\* an empty tally initialised whether or not it has a blank ballot
aggregate_init_unguarded(param, tally) ==
    [has_blank_ballot |-> TRUE,
     blank_ballot |-> IdentityBallot,
     voted_ballot |->
         tally.voted_ballot \o
         [i \in 1 .. Len(param.candidates) |->
             CandidateBallot(param.candidates[i], IdentityBallot)]]

\* lines 114-130: a tally without a blank ballot gets the identity as its
\* blank ballot and one identity ballot per configured candidate
aggregate_init(param, tally) ==
    IF ~tally.has_blank_ballot
    THEN [has_blank_ballot |-> TRUE,
          blank_ballot |-> IdentityBallot,
          voted_ballot |->
              tally.voted_ballot \o
              [i \in 1 .. Len(param.candidates) |->
                  CandidateBallot(param.candidates[i], IdentityBallot)]]
    ELSE tally

\* the incoming point replacing the sum
accumulate_overwrite(sum, point) == point

\* sum += point
accumulate(sum, point) == PointAdd(sum, point)

\* the candidates of the incoming ballot in place of the configured ones
tally_candidates_of_part(param, vote_storage_part) ==
    [i \in 1 .. Len(vote_storage_part.voted_ballot) |->
        vote_storage_part.voted_ballot[i].candidate]

\* line 152: the slots of the new tally are the configured candidates
tally_candidates(param, vote_storage_part) == param.candidates

\* the sum of two ballots, or the first decode failure, in the order the
\* code decodes: the tally's c1 and c2, then the incoming c1 and c2
add_ballots(sum_ballot, part_ballot) ==
    LET c1_sum == bytes_to_point(sum_ballot.ciphertext1)
        c2_sum == bytes_to_point(sum_ballot.ciphertext2)
        c1_tmp == bytes_to_point(part_ballot.ciphertext1)
        c2_tmp == bytes_to_point(part_ballot.ciphertext2)
    IN  IF ~c1_sum.ok \/ ~c2_sum.ok \/ ~c1_tmp.ok \/ ~c2_tmp.ok
        THEN [ok |-> FALSE, ballot |-> BallotNew]
        ELSE [ok |-> TRUE,
              ballot |-> Ballot(point_to_bytes(accumulate(c1_sum.point, c1_tmp.point)),
                                point_to_bytes(accumulate(c2_sum.point, c2_tmp.point)))]

\* lines 152-180: one slot per candidate, or the first decode failure
RECURSIVE aggregate_candidates(_, _, _, _, _)
aggregate_candidates(candidates, vote_storage_part, tally, i, voted_ballot) ==
    IF i > Len(candidates)
    THEN [ok |-> TRUE, voted_ballot |-> voted_ballot]
    ELSE LET candidate == candidates[i]
             candidate_ballot == find_ballot(tally.voted_ballot, candidate, 1, BallotNew)
             candidates_ballot ==
                 find_ballot(vote_storage_part.voted_ballot, candidate, 1, BallotNew)
             added == add_ballots(candidate_ballot, candidates_ballot)
         IN  IF ~added.ok
             THEN [ok |-> FALSE, voted_ballot |-> voted_ballot]
             ELSE aggregate_candidates(
                      candidates, vote_storage_part, tally, i + 1,
                      Append(voted_ballot, CandidateBallot(candidate, added.ballot)))

\* the result of the call and the tally it leaves behind
aggregate_vote_sum_response(param, vote_storage_part, tally) ==
    LET initialised == aggregate_init(param, tally)
        blank == add_ballots(initialised.blank_ballot, vote_storage_part.blank_ballot)
        voted == aggregate_candidates(tally_candidates(param, vote_storage_part),
                                      vote_storage_part, initialised, 1, << >>)
        tmp_vote_storage_sum ==
            [has_blank_ballot |-> TRUE,
             blank_ballot |-> blank.ballot,
             voted_ballot |-> voted.voted_ballot]
    IN  IF ~blank.ok THEN [result |-> FormatError, vote_sum |-> initialised]
        ELSE IF ~voted.ok THEN [result |-> FormatError, vote_sum |-> initialised]
        ELSE [result |-> OkTrue, vote_sum |-> tmp_vote_storage_sum]

(***************************************************************************)
(* The ballots aggregated: two honest ballots of different values, and     *)
(* every ballot that departs from one of them in at most MaxFaults places. *)
(***************************************************************************)
FamilyBallot(k, i) ==
    Ballot(point_to_bytes(Pt((i + k) % NumPoints)),
           point_to_bytes(Pt((i + 2 * k) % NumPoints)))

RECURSIVE BuildFamilyVoted(_, _, _)
BuildFamilyVoted(k, vo, i) ==
    IF i > NumCandidates
    THEN << >>
    ELSE LET entry == CandidateBallot(Candidates[i], BallotOf(vo[i], FamilyBallot(k, i)))
             here == CASE vo[i] = "omit" -> << >>
                       [] vo[i] = "dup" ->
                            << entry,
                               CandidateBallot(Candidates[i], FamilyBallot(k, i + 1)) >>
                       [] OTHER -> << entry >>
         IN  here \o BuildFamilyVoted(k, vo, i + 1)

Reverse(seq) == [i \in 1 .. Len(seq) |-> seq[Len(seq) + 1 - i]]

StorageGlobals == [blank : {"honest", "bad_c1", "bad_c2"}]

StorageOpts == {"honest", "omit", "bad_c2", "dup"}

\* a ballot of the first family, with the faults chosen by g and vo
BuildStorage(g, vo) ==
    [has_blank_ballot |-> TRUE,
     blank_ballot |-> BallotOf(g.blank, FamilyBallot(1, 0)),
     voted_ballot |-> BuildFamilyVoted(1, vo, 1)]

\* the ballot of the second family: it decodes, and it lists the candidates
\* in reverse order, the first of them twice, and an unconfigured candidate
UntidyStorage ==
    [has_blank_ballot |-> TRUE,
     blank_ballot |-> FamilyBallot(2, 0),
     voted_ballot |->
         Reverse(<< CandidateBallot(Candidates[1], FamilyBallot(1, 1)) >>
                 \o BuildFamilyVoted(2, [i \in 1 .. NumCandidates |-> "honest"], 1))
         \o << CandidateBallot(Outsider, FamilyBallot(2, 0)) >>]

Storages ==
    {UntidyStorage} \cup
    {BuildStorage(c[1], c[2]) :
        c \in {d \in StorageGlobals \X [1 .. NumCandidates -> StorageOpts] :
                  Faults(d[1]) + Faults(d[2]) <= MaxBallotFaults}}

SystemParameters ==
    [candidates |-> Candidates, poll_point |-> point_to_bytes(Pt(1 % NumPoints))]

InitAggregate ==
    /\ pc = "ready"
    /\ ret = NoRet
    /\ vote_sum = Fresh
    /\ n_agg = 0
    /\ args = [op |-> "aggregate_vote_sum_response"]

AggregateVoteSumResponse ==
    /\ args.op = "aggregate_vote_sum_response"
    /\ n_agg < MaxAggregations
    /\ \E part \in Storages :
          LET r == aggregate_vote_sum_response(SystemParameters, part, vote_sum)
          IN  /\ vote_sum' = r.vote_sum
              /\ ret' = [result |-> r.result, trace |-> << >>]
              /\ args' = [op |-> "aggregate_vote_sum_response",
                          param |-> SystemParameters,
                          vote_storage_part |-> part,
                          vote_sum |-> vote_sum]
    /\ n_agg' = n_agg + 1
    /\ pc' = "done"

NextAggregate == AggregateVoteSumResponse

SpecAggregate == InitAggregate /\ [][NextAggregate]_vars

AggDone == pc = "done" /\ args.op = "aggregate_vote_sum_response"

TallyOf(part, tally) == aggregate_vote_sum_response(SystemParameters, part, tally).vote_sum

\* C2: aggregation is order-independent: aggregating the ballot of the last
\* call and then any other ballot leaves the same tally (blank c1 and c2 and
\* every candidate's c1 and c2) as aggregating them in the other order, from
\* the empty tally and from every tally reached.
C2_AggregationCommutes ==
    AggDone =>
        \A other \in Storages :
            TallyOf(other, vote_sum)
                = TallyOf(args.vote_storage_part, TallyOf(other, args.vote_sum))

\* two different ballots, both aggregated with success into an empty tally
C2_Witness ==
    /\ AggDone
    /\ n_agg = 2
    /\ ret.result = OkTrue
    /\ vote_sum # args.vote_sum
    /\ vote_sum.blank_ballot # args.vote_storage_part.blank_ballot
    /\ args.vote_sum.blank_ballot # IdentityBallot
    /\ args.vote_sum.blank_ballot # args.vote_storage_part.blank_ballot

\* C3: after a successful aggregation into a tally that started empty, the
\* tally lists exactly the configured candidates, each once, in configured
\* order, whatever candidates the incoming ballots named.
C3_OneSlotPerCandidate ==
    (AggDone /\ ret.result = OkTrue) =>
        [i \in 1 .. Len(vote_sum.voted_ballot) |-> vote_sum.voted_ballot[i].candidate]
            = Candidates

\* a successful aggregation of a ballot that names a candidate twice and an
\* unconfigured candidate
C3_Witness ==
    /\ AggDone
    /\ ret.result = OkTrue
    /\ \E i \in 1 .. Len(args.vote_storage_part.voted_ballot) :
          args.vote_storage_part.voted_ballot[i].candidate = Outsider
    /\ \E i, j \in 1 .. Len(args.vote_storage_part.voted_ballot) :
          /\ i # j
          /\ args.vote_storage_part.voted_ballot[i].candidate
                 = args.vote_storage_part.voted_ballot[j].candidate

Omits(storage, candidate) ==
    \A i \in 1 .. Len(storage.voted_ballot) :
        storage.voted_ballot[i].candidate # candidate

WithIdentityBallot(storage, candidate) ==
    [storage EXCEPT !.voted_ballot =
        Append(storage.voted_ballot, CandidateBallot(candidate, IdentityBallot))]

\* C7: the outcome of aggregating a ballot whose list omits a configured
\* candidate is the outcome of aggregating the same ballot with the identity
\* ballot listed for that candidate.
C7_MissingCandidateIsIdentity ==
    AggDone =>
        \A x \in 1 .. NumCandidates :
            Omits(args.vote_storage_part, Candidates[x]) =>
                LET same == aggregate_vote_sum_response(
                                SystemParameters,
                                WithIdentityBallot(args.vote_storage_part, Candidates[x]),
                                args.vote_sum)
                IN  ret.result = same.result /\ vote_sum = same.vote_sum

\* C10: if aggregate_vote_sum_response returns an error, the tally is left
\* exactly as it was before the call.
C10_ErrorLeavesTally ==
    (AggDone /\ ret.result # OkTrue) => vote_sum = args.vote_sum

\* C10 as amended: if aggregate_vote_sum_response returns an error, a tally
\* that had a blank ballot is left exactly as it was, and a tally that had
\* none is left initialised: the identity as its blank ballot and one
\* identity ballot per configured candidate, in configured order.
C10_ErrorLeavesTallyOrInitialises ==
    (AggDone /\ ret.result # OkTrue) =>
        IF args.vote_sum.has_blank_ballot
        THEN vote_sum = args.vote_sum
        ELSE vote_sum =
                 [has_blank_ballot |-> TRUE,
                  blank_ballot |-> IdentityBallot,
                  voted_ballot |->
                      [i \in 1 .. NumCandidates |->
                          CandidateBallot(Candidates[i], IdentityBallot)]]

\* a failed aggregation into a tally that already holds a ballot
C10_Witness ==
    /\ AggDone
    /\ ret.result = FormatError
    /\ args.vote_sum.has_blank_ballot
    /\ args.vote_sum.blank_ballot # IdentityBallot

(***************************************************************************)
(* verify_count_request                                                    *)
(***************************************************************************)
CountingPart(c2_r, equality_proof) == [c2_r |-> c2_r, equality_proof |-> equality_proof]

\* the scan for the counting part of a candidate: the last match wins, and
\* no match leaves CountingPart::new()
RECURSIVE find_counting_part(_, _, _, _)
find_counting_part(pairs, candidate, i, found) ==
    IF i > Len(pairs)
    THEN found
    ELSE find_counting_part(pairs, candidate, i + 1,
                            IF pairs[i].key = candidate THEN pairs[i].value ELSE found)

\* one slot: the decodes in the order of the code, then the equality proof
verify_count_slot(slot, ballot, counting_part, counter_share) ==
    LET c2_sum == bytes_to_point(ballot.ciphertext2)
        c2_r == bytes_to_point(counting_part.c2_r)
        equality_proof == bytes_to_proto(counting_part.equality_proof)
        verified == verify_equality_relationship_proof(
                        counter_share, c2_r.point, equality_proof.proof, c2_sum.point)
        event == Event("equality", verified, << slot, c2_r.point, c2_sum.point >>)
    IN  IF ~c2_sum.ok \/ ~c2_r.ok THEN [result |-> FormatError, events |-> << >>]
        ELSE IF ~equality_proof.ok THEN [result |-> DecodeError, events |-> << >>]
        ELSE IF verified \notin {OkTrue, OkFalse}
        THEN [result |-> verified, events |-> << event >>]
        ELSE IF verified = OkFalse THEN [result |-> OkFalse, events |-> << event >>]
        ELSE [result |-> OkTrue, events |-> << event >>]

\* the candidate loop going on to the next slot after a proof that fails
RECURSIVE verify_count_candidates_no_return(_, _, _, _, _, _)
verify_count_candidates_no_return(param, encrypted_vote_sum, counter_share, request, i, trace) ==
    IF i > Len(param.candidates)
    THEN Ret(OkTrue, trace)
    ELSE LET candidate == param.candidates[i]
             candidate_ballot ==
                 find_ballot(encrypted_vote_sum.voted_ballot, candidate, 1, BallotNew)
             counting_part ==
                 find_counting_part(request.candidate_part, candidate, 1, CountingPartNew)
             slot == verify_count_slot(i, candidate_ballot, counting_part, counter_share)
         IN  IF slot.result \notin {OkTrue, OkFalse}
             THEN Ret(slot.result, trace \o slot.events)
             ELSE verify_count_candidates_no_return(
                      param, encrypted_vote_sum, counter_share, request, i + 1,
                      trace \o slot.events)

\* lines 214-244
RECURSIVE verify_count_candidates(_, _, _, _, _, _)
verify_count_candidates(param, encrypted_vote_sum, counter_share, request, i, trace) ==
    IF i > Len(param.candidates)
    THEN Ret(OkTrue, trace)
    ELSE LET candidate == param.candidates[i]
             candidate_ballot ==
                 find_ballot(encrypted_vote_sum.voted_ballot, candidate, 1, BallotNew)
             counting_part ==
                 find_counting_part(request.candidate_part, candidate, 1, CountingPartNew)
             slot == verify_count_slot(i, candidate_ballot, counting_part, counter_share)
         IN  IF slot.result # OkTrue
             THEN Ret(slot.result, trace \o slot.events)
             ELSE verify_count_candidates(param, encrypted_vote_sum, counter_share,
                                          request, i + 1, trace \o slot.events)

verify_count_request(param, encrypted_vote_sum, counter_share, request) ==
    LET blank == verify_count_slot(0, encrypted_vote_sum.blank_ballot,
                                   request.blank_part, counter_share)
    IN  IF blank.result # OkTrue
        THEN Ret(blank.result, blank.events)
        ELSE verify_count_candidates(param, encrypted_vote_sum, counter_share, request,
                                     1, blank.events)

(***************************************************************************)
(* The partial decryptions an authority can submit, against the tallies    *)
(* above: at most MaxFaults departures from the honest ones in all.        *)
(***************************************************************************)
\* the honest c2_r of slot i (slot 0 is the blank slot)
HonestC2R(i) == Pt(bytes_to_point(FamilyBallot(1, i).ciphertext1).point.lo \div 2)

PartOpts == {"honest", "omit", "bad_c2_r", "forged", "garbled", "err", "shift"}

CountOpts == PartOpts \ {"shift"}

PartOf(opt, i) ==
    CASE opt = "bad_c2_r" -> CountingPart(MalformedBytes, "valid")
      [] opt = "forged" -> CountingPart(point_to_bytes(HonestC2R(i)), "forged")
      [] opt = "garbled" -> CountingPart(point_to_bytes(HonestC2R(i)), "garbled")
      [] opt = "err" -> CountingPart(point_to_bytes(HonestC2R(i)), "err")
      [] opt = "shift" ->
           CountingPart(point_to_bytes(PointAdd(HonestC2R(i), BASEPOINT_G1)), "valid")
      [] OTHER -> CountingPart(point_to_bytes(HonestC2R(i)), "valid")

RECURSIVE BuildParts(_, _)
BuildParts(co, i) ==
    IF i > NumCandidates
    THEN << >>
    ELSE (IF co[i] = "omit"
          THEN << >>
          ELSE << [key |-> Candidates[i], value |-> PartOf(co[i], i)] >>)
         \o BuildParts(co, i + 1)

BuildDecrypted(b, co) == [blank_part |-> PartOf(b, 0), candidate_part |-> BuildParts(co, 1)]

CounterShare == BASEPOINT_G1

InitCount ==
    /\ pc = "ready"
    /\ ret = NoRet
    /\ vote_sum = Fresh
    /\ n_agg = 0
    /\ \E g \in StorageGlobals, vo \in [1 .. NumCandidates -> StorageOpts] :
          /\ Faults(g) + Faults(vo) <= MaxFaults
          /\ \E b \in CountOpts \ {"omit"}, co \in [1 .. NumCandidates -> CountOpts] :
                /\ Faults(g) + Faults(vo) + Faults(<< b >>) + Faults(co) <= MaxFaults
                /\ args = [op |-> "verify_count_request",
                           param |-> SystemParameters,
                           encrypted_vote_sum |-> BuildStorage(g, vo),
                           counter_share |-> CounterShare,
                           request |-> BuildDecrypted(b, co)]

VerifyCountRequest ==
    /\ pc = "ready"
    /\ args.op = "verify_count_request"
    /\ ret' = verify_count_request(args.param, args.encrypted_vote_sum,
                                   args.counter_share, args.request)
    /\ pc' = "done"
    /\ UNCHANGED <<args, vote_sum, n_agg>>

NextCount == VerifyCountRequest

SpecCount == InitCount /\ [][NextCount]_vars

CountDone == pc = "done" /\ args.op = "verify_count_request"

Max(S) == CHOOSE x \in S : \A y \in S : y <= x

Min(S) == CHOOSE x \in S : \A y \in S : x <= y

\* the entry of a keyed list that a lookup by key yields: the last one
\* under the key, and the default when the key is absent
LastUnder(keys, values, key, default) ==
    LET at == {i \in 1 .. Len(keys) : keys[i] = key}
    IN  IF at = {} THEN default ELSE values[Max(at)]

SlotBallot(storage, slot) ==
    IF slot = 0
    THEN storage.blank_ballot
    ELSE LastUnder([i \in 1 .. Len(storage.voted_ballot) |->
                       storage.voted_ballot[i].candidate],
                   [i \in 1 .. Len(storage.voted_ballot) |-> storage.voted_ballot[i].ballot],
                   Candidates[slot], BallotNew)

SlotPart(decrypted, slot) ==
    IF slot = 0
    THEN decrypted.blank_part
    ELSE LastUnder([i \in 1 .. Len(decrypted.candidate_part) |->
                       decrypted.candidate_part[i].key],
                   [i \in 1 .. Len(decrypted.candidate_part) |->
                       decrypted.candidate_part[i].value],
                   Candidates[slot], CountingPartNew)

Slots == 0 .. NumCandidates

\* the inputs that decode: every point, every proof message, and the
\* fields of every proof (the verifier returns no error)
CountWellFormed ==
    \A slot \in Slots :
        /\ bytes_to_point(SlotBallot(args.encrypted_vote_sum, slot).ciphertext2).ok
        /\ bytes_to_point(SlotPart(args.request, slot).c2_r).ok
        /\ bytes_to_proto(SlotPart(args.request, slot).equality_proof).ok
        /\ verify_equality_relationship_proof(
               args.counter_share,
               bytes_to_point(SlotPart(args.request, slot).c2_r).point,
               bytes_to_proto(SlotPart(args.request, slot).equality_proof).proof,
               bytes_to_point(SlotBallot(args.encrypted_vote_sum, slot).ciphertext2).point)
           \in {OkTrue, OkFalse}

\* C5: with well-formed inputs, verify_count_request checks the equality
\* proof of the blank slot and then of each configured candidate in
\* configured order, returns Ok(false) at the first slot whose proof fails
\* without checking a later slot, and returns Ok(true) exactly when the
\* proof of every slot passes.
C5_CountSlotsInOrder ==
    (CountDone /\ CountWellFormed) =>
        LET failing == {slot \in Slots :
                           SlotPart(args.request, slot).equality_proof # "valid"}
            last == IF failing = {} THEN NumCandidates ELSE Min(failing)
        IN  /\ Len(ret.trace) = last + 1
            /\ \A i \in 1 .. Len(ret.trace) :
                  /\ ret.trace[i].check = "equality"
                  /\ ret.trace[i].on[1] = i - 1
                  /\ ret.trace[i].ok = (i - 1 \notin failing)
            /\ ret.result = IF failing = {} THEN OkTrue ELSE OkFalse

\* the proof of the first candidate fails, after the blank slot passed and
\* with a later candidate left unchecked
C5_Witness ==
    /\ CountDone
    /\ CountWellFormed
    /\ ret.result = OkFalse
    /\ Len(ret.trace) = 2
    /\ ret.trace[1].ok
    /\ NumCandidates >= 2

(***************************************************************************)
(* verify_vote_result                                                      *)
(***************************************************************************)
TotalBallotsKey == "Wedpr_voting_total_ballots"

\* the scan of the disclosed result for a key: the last match wins, and no
\* match leaves 0
RECURSIVE find_result(_, _, _, _)
find_result(result, key, i, found) ==
    IF i > Len(result)
    THEN found
    ELSE find_result(result, key, i + 1,
                     IF result[i].key = key THEN result[i].value ELSE found)

\* *BASEPOINT_G1 * Scalar::from(value as u64)
disclosed_point(value) == ScalarMul(BASEPOINT_G1, ScalarFromU64Cast(value))

\* the blank slot accepted when the points differ
blank_result_failed_flipped(expected, disclosed) == expected = disclosed

\* lines 269-270: expected_blank_ballot_result.ne(..)
blank_result_failed(expected, disclosed) == expected # disclosed

\* lines 303-304: !expected_candidate_ballot_result.eq(..)
candidate_result_failed(expected, disclosed) == ~(expected = disclosed)

\* lines 276-309
RECURSIVE verify_candidate_results(_, _, _, _, _)
verify_candidate_results(param, tally, counting_result_sum, vote_result_request, i) ==
    IF i > Len(param.candidates)
    THEN OkTrue
    ELSE LET candidate == param.candidates[i]
             ballot == find_ballot(tally.voted_ballot, candidate, 1, BallotNew)
             candidate_counting_part ==
                 find_counting_part(counting_result_sum.candidate_part, candidate, 1,
                                    CountingPartNew)
             candidate_c2_r_sum == bytes_to_point(candidate_counting_part.c2_r)
             c1 == bytes_to_point(ballot.ciphertext1)
             expected_candidate_ballot_result ==
                 PointSub(c1.point, candidate_c2_r_sum.point)
             get_candidate_result == find_result(vote_result_request.result, candidate, 1, 0)
         IN  IF ~candidate_c2_r_sum.ok \/ ~c1.ok
             THEN FormatError
             ELSE IF candidate_result_failed(expected_candidate_ballot_result,
                                             disclosed_point(get_candidate_result))
             THEN OkFalse
             ELSE verify_candidate_results(param, tally, counting_result_sum,
                                           vote_result_request, i + 1)

verify_vote_result(param, tally, counting_result_sum, vote_result_request) ==
    LET blank_c1_sum == bytes_to_point(tally.blank_ballot.ciphertext1)
        blank_c2_r_sum == bytes_to_point(counting_result_sum.blank_part.c2_r)
        expected_blank_ballot_result == PointSub(blank_c1_sum.point, blank_c2_r_sum.point)
        get_blank_result == find_result(vote_result_request.result, TotalBallotsKey, 1, 0)
    IN  IF ~blank_c1_sum.ok \/ ~blank_c2_r_sum.ok
        THEN Ret(FormatError, << >>)
        ELSE IF blank_result_failed(expected_blank_ballot_result,
                                    disclosed_point(get_blank_result))
        THEN Ret(OkFalse, << >>)
        ELSE Ret(verify_candidate_results(param, tally, counting_result_sum,
                                          vote_result_request, 1),
                 << >>)

(***************************************************************************)
(* The disclosed results checked, against the tallies and the combined     *)
(* decryptions above: at most MaxFaults departures from the honest ones.   *)
(***************************************************************************)
ResultKeys == << TotalBallotsKey >> \o Candidates

\* the honest value of slot i: the discrete logarithm of c1 - c2_r
HonestValue(i) ==
    PointSub(bytes_to_point(FamilyBallot(1, i).ciphertext1).point, HonestC2R(i)).lo

ValueOpts == {"honest", "omit", "negative", "more"}

ValueOf(opt, i) ==
    CASE opt = "negative" -> 0 - 1
      [] opt = "more" -> HonestValue(i) + 1
      [] OTHER -> HonestValue(i)

RECURSIVE BuildResult(_, _)
BuildResult(ro, i) ==
    IF i > NumCandidates
    THEN << >>
    ELSE (IF ro[i] = "omit"
          THEN << >>
          ELSE << [key |-> ResultKeys[i + 1], value |-> ValueOf(ro[i], i)] >>)
         \o BuildResult(ro, i + 1)

ResultStorageOpts == {"honest", "omit", "bad_c1", "dup"}

ResultPartOpts == {"honest", "omit", "bad_c2_r", "shift"}

InitResult ==
    /\ pc = "ready"
    /\ ret = NoRet
    /\ vote_sum = Fresh
    /\ n_agg = 0
    /\ \E g \in StorageGlobals, vo \in [1 .. NumCandidates -> ResultStorageOpts] :
          /\ Faults(g) + Faults(vo) <= MaxFaults
          /\ \E b \in ResultPartOpts \ {"omit"},
                co \in [1 .. NumCandidates -> ResultPartOpts] :
                /\ Faults(g) + Faults(vo) + Faults(<< b >>) + Faults(co) <= MaxFaults
                /\ \E ro \in [Slots -> ValueOpts] :
                      /\ Faults(g) + Faults(vo) + Faults(<< b >>) + Faults(co)
                             + Faults(ro) <= MaxFaults
                      /\ args = [op |-> "verify_vote_result",
                                 param |-> SystemParameters,
                                 vote_sum |-> BuildStorage(g, vo),
                                 counting_result_sum |-> BuildDecrypted(b, co),
                                 vote_result_request |-> [result |-> BuildResult(ro, 0)]]

VerifyVoteResult ==
    /\ pc = "ready"
    /\ args.op = "verify_vote_result"
    /\ ret' = verify_vote_result(args.param, args.vote_sum, args.counting_result_sum,
                                 args.vote_result_request)
    /\ pc' = "done"
    /\ UNCHANGED <<args, vote_sum, n_agg>>

NextResult == VerifyVoteResult

SpecResult == InitResult /\ [][NextResult]_vars

ResultDone == pc = "done" /\ args.op = "verify_vote_result"

ResultWellFormed ==
    \A slot \in Slots :
        /\ bytes_to_point(SlotBallot(args.vote_sum, slot).ciphertext1).ok
        /\ bytes_to_point(SlotPart(args.counting_result_sum, slot).c2_r).ok

\* the value disclosed for a slot: under the reserved key for the blank
\* slot, under the candidate for a candidate slot, and 0 when absent
Disclosed(slot) ==
    LET result == args.vote_result_request.result
    IN  LastUnder([i \in 1 .. Len(result) |-> result[i].key],
                  [i \in 1 .. Len(result) |-> result[i].value],
                  ResultKeys[slot + 1], 0)

SlotMatches(slot) ==
    PointSub(bytes_to_point(SlotBallot(args.vote_sum, slot).ciphertext1).point,
             bytes_to_point(SlotPart(args.counting_result_sum, slot).c2_r).point)
        = ScalarMul(BASEPOINT_G1, ScalarFromU64Cast(Disclosed(slot)))

\* C4: with well-formed inputs, verify_vote_result returns Ok(true) exactly
\* when, for the blank slot and for every configured candidate, the tally's
\* c1 minus the combined c2_r is the disclosed value (0 when absent, taken
\* as an unsigned 64-bit quantity) times G1, and Ok(false) otherwise; the
\* blank slot and the candidate slots apply the same test.  A negative
\* disclosed value, being 2^64 less its magnitude once unsigned, matches no
\* slot of these tallies.
C4_ResultMatchesEverySlot ==
    (ResultDone /\ ResultWellFormed) =>
        /\ ret.result = IF \A slot \in Slots : SlotMatches(slot) THEN OkTrue ELSE OkFalse
        /\ (\E slot \in Slots : Disclosed(slot) < 0) => ret.result = OkFalse

\* a result accepted with the value of one slot absent from the disclosed
\* list and the value of another slot disclosed and not 0
C4_Witness ==
    /\ ResultDone
    /\ ResultWellFormed
    /\ ret.result = OkTrue
    /\ Len(args.vote_result_request.result) < NumCandidates + 1
    /\ \E slot \in Slots : Disclosed(slot) # 0

(***************************************************************************)
(* The whole verifier: any one of the operations above, on its inputs.     *)
(***************************************************************************)
Init == InitVote \/ InitPad \/ InitAggregate \/ InitCount \/ InitResult

Next ==
    \/ VerifyBoundedVoteRequest
    \/ PendingCommitmentVec
    \/ AggregateVoteSumResponse
    \/ VerifyCountRequest
    \/ VerifyVoteResult

Spec == Init /\ [][Next]_vars

====
